---- MODULE Spec2Model ----
(***************************************************************************)
(* A model of brewery's data-stream core: the record path transform        *)
(* (expand_record / collapse_record), the field list builder (fieldlist),  *)
(* schema inference (DataSource.read_fields) and the SQL type bridge       *)
(* (SQLDataset.fields, SQLDataStore.create_dataset).                       *)
(*                                                                         *)
(* Strings that the code splits or joins are sequences of one-character    *)
(* strings.  A Python dict is a sequence of items [k, v] with distinct     *)
(* keys: the sequence is the order in which items() yields the dict, and   *)
(* two dicts are equal when they hold the same keys with the same values.  *)
(***************************************************************************)
EXTENDS Integers, Sequences, FiniteSets, TLC

VARIABLES
    \* record path transform: position, the record and separator given,
    \* expand_record's result and collapse_record's result
    p_pc, p_rec, p_sep, p_exp, p_col,
    \* field list builder: position, the descriptions given, the result
    fl_pc, fl_in, fl_out,
    \* read_fields: position; the records the source yields, the limit and
    \* collapse arguments and the source's expand attribute; the number of
    \* records taken from the source, count, keys, probes (the kinds each
    \* probe has observed), every (key, value) given to a probe so far, and
    \* the Field list returned
    rf_pc, rf_stream, rf_limit, rf_collapse, rf_expand,
    rf_taken, rf_count, rf_keys, rf_probes, rf_probed, rf_fields,
    \* SQLDataset: the columns of its table, its _fields, and the list its
    \* fields property returned last
    ds_columns, ds_fields, ds_returned,
    \* SQLDataStore: the tables of the database and the Table objects of
    \* self.metadata, each a function from table names to column lists;
    \* create_dataset's position, arguments, loop index and exception, and
    \* the tables of the database when it was called
    db_tables, metadata, cd_pc, cd_name, cd_fields, cd_replace, cd_i, cd_exc,
    cd_before,
    \* SQLDataTarget: its field names, the rows of its table, and of the
    \* last append its position, its argument, its exception and the rows
    \* of the table before it
    tg_field_names, tg_rows, tg_pc, tg_obj, tg_exc, tg_before

p_vars == <<p_pc, p_rec, p_sep, p_exp, p_col>>

fl_vars == <<fl_pc, fl_in, fl_out>>

rf_vars == <<rf_pc, rf_stream, rf_limit, rf_collapse, rf_expand,
             rf_taken, rf_count, rf_keys, rf_probes, rf_probed, rf_fields>>

ds_vars == <<ds_columns, ds_fields, ds_returned>>

cd_vars == <<db_tables, metadata, cd_pc, cd_name, cd_fields, cd_replace, cd_i,
             cd_exc, cd_before>>

tg_vars == <<tg_field_names, tg_rows, tg_pc, tg_obj, tg_exc, tg_before>>

vars == <<p_vars, fl_vars, rf_vars, ds_vars, cd_vars, tg_vars>>

----------------------------------------------------------------------------
(* Bounds                                                                  *)

\* longest key of a generated record, in path segments
MaxSegs == 3
\* most items of a generated record
MaxKeys == 2
\* most descriptions given to fieldlist
MaxDescs == 2
\* most records of a source
MaxRecords == 3
\* largest limit given to read_fields
MaxLimit == 2
\* most columns of an introspected table
MaxColumns == 2
\* most fields given to create_dataset
MaxFields == 2
\* most rows appended to a target
MaxAppends == 2
\* most values of an appended row
MaxRowLen == 3

----------------------------------------------------------------------------
(* Values and dicts                                                        *)

\* a Python value that is not a dict: its class name and an identity
Value(cls, id) == [cls |-> cls, id |-> id]

NoValue == Value("-", 0)

\* a dict entry's value: a non-dict value, or a nested dict
Leaf(v) == [leaf |-> TRUE, val |-> v, items |-> <<>>]

DictNode(d) == [leaf |-> FALSE, val |-> NoValue, items |-> d]

Item(k, v) == [k |-> k, v |-> v]

DictKeys(d) == {d[i].k : i \in 1..Len(d)}

\* `key in d`
DictHas(d, key) == \E i \in 1..Len(d) : d[i].k = key

\* d[key]
DictGet(d, key) == d[CHOOSE i \in 1..Len(d) : d[i].k = key].v

\* d[key] = node
DictSet(d, key, node) ==
    IF DictHas(d, key)
    THEN [i \in 1..Len(d) |-> IF d[i].k = key THEN Item(key, node) ELSE d[i]]
    ELSE Append(d, Item(key, node))

RECURSIVE DictUpdateFrom(_, _, _)
DictUpdateFrom(d, other, i) ==
    IF i > Len(other) THEN d
    ELSE DictUpdateFrom(DictSet(d, other[i].k, other[i].v), other, i + 1)

\* d.update(other)
DictUpdate(d, other) == DictUpdateFrom(d, other, 1)

\* dict equality: the same keys with the same values, in any order
AsMap(d) == [key \in DictKeys(d) |-> DictGet(d, key)]

Min(S) == CHOOSE x \in S : \A y \in S : x <= y

----------------------------------------------------------------------------
(* Record path transform                                                   *)

RECURSIVE split(_, _)
\* key.split(separator): cut at each leftmost occurrence of the separator
split(s, sep) ==
    LET n == Len(sep)
        at == {i \in 1..(Len(s) - n + 1) : SubSeq(s, i, i + n - 1) = sep}
    IN  IF at = {} THEN <<s>>
        ELSE LET i == Min(at)
             IN  <<SubSeq(s, 1, i - 1)>> \o split(SubSeq(s, i + n, Len(s)), sep)

RECURSIVE expand_insert(_, _, _)
\* the body of expand_record's loop for one key: walk `path` from `current`,
\* creating the missing dicts, and store the value at the last segment.
\* Walking into a value that is not a dict raises TypeError (ok = FALSE).
expand_insert(current, path, node) ==
    IF Len(path) = 1
    THEN [ok |-> TRUE, d |-> DictSet(current, path[1], node)]
    ELSE LET part == path[1]
             cur1 == IF DictHas(current, part) THEN current
                     ELSE DictSet(current, part, DictNode(<<>>))
             child == DictGet(cur1, part)
         IN  IF child.leaf
             THEN [ok |-> FALSE, d |-> <<>>]
             ELSE LET sub == expand_insert(child.items, Tail(path), node)
                  IN  IF sub.ok
                      THEN [ok |-> TRUE, d |-> DictSet(cur1, part, DictNode(sub.d))]
                      ELSE [ok |-> FALSE, d |-> <<>>]

RECURSIVE expand_from(_, _, _, _)
expand_from(record, separator, i, result) ==
    IF i > Len(record) THEN [ok |-> TRUE, d |-> result]
    ELSE LET r == expand_insert(result, split(record[i].k, separator), record[i].v)
         IN  IF r.ok THEN expand_from(record, separator, i + 1, r.d)
             ELSE [ok |-> FALSE, d |-> <<>>]

expand_record(record, separator) == expand_from(record, separator, 1, <<>>)

\* a collapse that joins the root and the key without the separator
collapsed_key_unseparated(root, separator, key) ==
    IF root # <<>> THEN root \o key ELSE key

\* collapse_record's key for an item: root + separator + key when root is
\* truthy (neither None nor ''), the key alone otherwise
collapsed_key(root, separator, key) ==
    IF root # <<>> THEN root \o separator \o key ELSE key

RECURSIVE collapse_from(_, _, _, _, _)
collapse_from(record, separator, root, i, result) ==
    IF i > Len(record) THEN result
    ELSE LET ck == collapsed_key(root, separator, record[i].k)
             value == record[i].v
             next == IF ~value.leaf
                     THEN DictUpdate(result,
                              collapse_from(value.items, separator, ck, 1, <<>>))
                     ELSE DictSet(result, ck, value)
         IN  collapse_from(record, separator, root, i + 1, next)

collapse_record(record, separator, root) ==
    collapse_from(record, separator, root, 1, <<>>)

----------------------------------------------------------------------------
(* Inputs of the path transform                                            *)

Segments == {<<"a">>, <<"b">>}

\* the default separator, and one that also occurs inside the segments
Separators == {<<".">>, <<"a">>}

RECURSIVE join(_, _)
join(path, sep) ==
    IF Len(path) = 1 THEN path[1] ELSE path[1] \o sep \o join(Tail(path), sep)

Paths == UNION {[1..n -> Segments] : n \in 1..MaxSegs}

\* keys written with '.', whatever separator the call is given
PathKeys == {join(p, <<".">>) : p \in Paths}

\* the i-th value of a generated record: an integer; the first may also be
\* a one-item dict (a record that is not flat)
PathValues(i) ==
    {Leaf(Value("int", i))} \cup
    (IF i = 1 THEN {DictNode(<<Item(<<"b">>, Leaf(Value("int", i)))>>)} ELSE {})

PathRecords ==
    UNION {{r \in [1..n -> [k : PathKeys, v : UNION {PathValues(i) : i \in 1..n}]] :
              /\ \A i \in 1..n : r[i].v \in PathValues(i)
              /\ \A i, j \in 1..n : i # j => r[i].k # r[j].k}
           : n \in 0..MaxKeys}

p_Idle ==
    /\ p_pc = "idle"
    /\ p_rec = <<>>
    /\ p_sep = <<".">>
    /\ p_exp = [ok |-> TRUE, d |-> <<>>]
    /\ p_col = <<>>

p_Init ==
    /\ p_pc = "start"
    /\ p_rec \in PathRecords
    /\ p_sep \in Separators
    /\ p_exp = [ok |-> TRUE, d |-> <<>>]
    /\ p_col = <<>>

Expand ==
    /\ p_pc = "start"
    /\ p_exp' = expand_record(p_rec, p_sep)
    /\ p_pc' = IF p_exp'.ok THEN "expanded" ELSE "raised"
    /\ UNCHANGED <<p_rec, p_sep, p_col>>
    /\ UNCHANGED <<fl_vars, rf_vars, ds_vars, cd_vars, tg_vars>>

Collapse ==
    /\ p_pc = "expanded"
    /\ p_col' = collapse_record(p_exp.d, p_sep, <<>>)
    /\ p_pc' = "collapsed"
    /\ UNCHANGED <<p_rec, p_sep, p_exp>>
    /\ UNCHANGED <<fl_vars, rf_vars, ds_vars, cd_vars, tg_vars>>

p_Next == Expand \/ Collapse

\* the conditions of the round trip
IsFlat(record) == \A i \in 1..Len(record) : record[i].v.leaf

NoEmptySegment(record, sep) ==
    \A i \in 1..Len(record) :
        LET path == split(record[i].k, sep)
        IN  \A n \in 1..Len(path) : path[n] # <<>>

IsPrefix(p, q) == Len(p) <= Len(q) /\ SubSeq(q, 1, Len(p)) = p

NoCollision(record, sep) ==
    \A i, j \in 1..Len(record) :
        i # j => ~IsPrefix(split(record[i].k, sep), split(record[j].k, sep))

RoundTrips(record, sep) ==
    IsFlat(record) /\ NoEmptySegment(record, sep) /\ NoCollision(record, sep)

\* C1: for a flat record whose keys have no empty path segment and whose
\* paths do not collide, expand_record succeeds and collapsing its result
\* with the same separator gives a dict equal to the record.
C1_RoundTrip ==
    RoundTrips(p_rec, p_sep) =>
        /\ p_pc # "raised"
        /\ p_pc = "collapsed" => AsMap(p_col) = AsMap(p_rec)

\* two keys nested under one parent went through expand and collapse
C1_Witness ==
    /\ p_pc = "collapsed"
    /\ RoundTrips(p_rec, p_sep)
    /\ Len(p_rec) = 2
    /\ Len(split(p_rec[1].k, p_sep)) >= 2
    /\ Len(split(p_rec[2].k, p_sep)) >= 2
    /\ split(p_rec[1].k, p_sep)[1] = split(p_rec[2].k, p_sep)[1]

\* the path of one key is a proper prefix of the path of another key, and
\* the value under the shorter key is no mapping
PathCollision(record, sep) ==
    \E i, j \in 1..Len(record) :
        /\ i # j
        /\ record[i].v.leaf
        /\ IsPrefix(split(record[i].k, sep), split(record[j].k, sep))
        /\ Len(split(record[i].k, sep)) < Len(split(record[j].k, sep))

\* C12: expand_record raises on every record with a path collision, in
\* whichever order its keys are processed, and so never returns a result
\* in which a colliding value was overwritten.
C12_CollisionRaises ==
    (p_pc # "start" /\ PathCollision(p_rec, p_sep)) => p_pc = "raised"

----------------------------------------------------------------------------
(* Field and the field list builder                                        *)

None == "None"

\* Field.__init__
Field(name, label, storage_type, analytical_type, concrete_storage_type) ==
    [name |-> name, label |-> label, storage_type |-> storage_type,
     analytical_type |-> analytical_type,
     concrete_storage_type |-> concrete_storage_type, missing_values |-> None]

\* Field.default_analytical_type
default_analytical_type ==
    [st \in {"unknown", "string", "text", "date", "integer", "float"} |->
        CASE st = "integer" -> "discrete"
          [] st = "float" -> "range"
          [] OTHER -> "typeless"]

\* a field description: a str (elems holds the name), a tuple (elems holds
\* its elements), a dict (d), or an object of another type
Desc(shape, elems, d) == [shape |-> shape, elems |-> elems, d |-> d]

NoDict == [key \in {} |-> None]

NoDesc == Desc(None, <<>>, NoDict)

\* an exception: its class and what its message names (the type and the
\* text of the description, for fieldlist's ValueError)
Exception(exc, type, obj) == [exc |-> exc, type |-> type, obj |-> obj]

NoException == Exception(None, None, NoDesc)

\* Field(**d): the keyword arguments Field.__init__ does not know raise
\* TypeError; those not given take its defaults
FieldFromKeywords(d) ==
    IF DOMAIN d \subseteq {"name", "label", "storage_type", "analytical_type",
                           "concrete_storage_type", "missing_values"}
    THEN [ok |-> TRUE, exc |-> NoException,
          field |-> Field(d["name"],
                          IF "label" \in DOMAIN d THEN d["label"] ELSE None,
                          IF "storage_type" \in DOMAIN d
                              THEN d["storage_type"] ELSE "unknown",
                          IF "analytical_type" \in DOMAIN d
                              THEN d["analytical_type"] ELSE None,
                          None)]
    ELSE [ok |-> FALSE, exc |-> Exception("TypeError", None, NoDesc),
          field |-> Field(None, None, None, None, None)]

Raise(exc) == [ok |-> FALSE, exc |-> exc, d |-> NoDict]

\* a ValueError whose message gives the type of the description only
unknown_object_error_untold(obj) == Exception("ValueError", obj.shape, NoDesc)

\* ValueError("Unknown object type ('%s' ) of field description object
\* '%s'" % (type(obj), obj)): the message gives the type and the object
unknown_object_error(obj) == Exception("ValueError", obj.shape, obj)

Keywords(d) == [ok |-> TRUE, exc |-> NoException, d |-> d]

\* the keys fieldlist copies from a dict description
CopiedKeys == {"name", "label", "storage_type", "analytical_type",
               "adapter_storage_type"}

\* fieldlist's loop body up to the Field constructor: the keyword dict d
\* built for one description
field_keywords(obj) ==
    LET d0 == ("storage_type" :> "unknown") @@ ("analytical_type" :> "typeless")
        d1 == CASE obj.shape = "str" ->
                     Keywords(("name" :> obj.elems[1]) @@ d0)
                [] obj.shape = "tuple" ->
                     IF Len(obj.elems) = 0
                     THEN Raise(Exception("IndexError", None, NoDesc))
                     ELSE Keywords(("name" :> obj.elems[1])
                                 @@ (IF Len(obj.elems) > 1
                                     THEN ("storage_type" :> obj.elems[2])
                                          @@ (IF Len(obj.elems) > 2
                                              THEN "analytical_type" :> obj.elems[3]
                                              ELSE NoDict)
                                     ELSE NoDict)
                                 @@ d0)
                [] obj.shape = "dict" ->
                     IF "name" \notin DOMAIN obj.d
                     THEN Raise(Exception("KeyError", None, NoDesc))
                     ELSE Keywords([key \in (DOMAIN obj.d \cap CopiedKeys) |-> obj.d[key]]
                                 @@ d0)
                [] OTHER -> Raise(unknown_object_error(obj))
    IN  IF ~d1.ok THEN d1
        ELSE IF "analytical_type" \notin DOMAIN d1.d
             \* Field.default_analytical_types is not an attribute of Field
             THEN Raise(Exception("AttributeError", None, NoDesc))
             ELSE d1

\* a builder that drops a description whose name is already in the list
list_append_unique(a_list, field) ==
    IF \E i \in 1..Len(a_list) : a_list[i].name = field.name
    THEN a_list ELSE Append(a_list, field)

\* a_list.append(Field(**d))
list_append(a_list, field) == Append(a_list, field)

RECURSIVE fieldlist_from(_, _, _)
fieldlist_from(fields, i, a_list) ==
    IF i > Len(fields)
    THEN [ok |-> TRUE, exc |-> NoException, fields |-> a_list]
    ELSE LET kw == field_keywords(fields[i])
             made == FieldFromKeywords(kw.d)
         IN  IF ~kw.ok
             THEN [ok |-> FALSE, exc |-> kw.exc, fields |-> <<>>]
             ELSE IF ~made.ok
             THEN [ok |-> FALSE, exc |-> made.exc, fields |-> <<>>]
             ELSE fieldlist_from(fields, i + 1, list_append(a_list, made.field))

fieldlist(fields) == fieldlist_from(fields, 1, <<>>)

----------------------------------------------------------------------------
(* Inputs of the field list builder                                        *)

Names == {"n1", "n2"}

TupleDescs ==
    {Desc("tuple", e, NoDict) :
        e \in {<<>>, <<"n1", "integer", "set", "extra">>}
              \cup {<<n>> : n \in Names}
              \cup {<<n, st>> : n \in Names, st \in {"integer", "float"}}
              \cup {<<n, st, "set">> : n \in Names, st \in {"integer", "string"}}}

DictValues(key) ==
    CASE key = "name" -> Names
      [] key = "label" -> {"Label"}
      [] key = "storage_type" -> {"integer"}
      [] key = "analytical_type" -> {"flag"}
      [] OTHER -> {"VARCHAR"}

DictDomains ==
    {D \in SUBSET {"name", "storage_type", "analytical_type",
                   "adapter_storage_type"} : D # {}}
    \cup {{"name", "label"}, {"name", "concrete_storage_type"}}

DictDescs ==
    {Desc("dict", <<>>, d) :
        d \in UNION {{f \in [D -> {"n1", "n2", "Label", "integer", "flag", "VARCHAR"}] :
                         \A key \in D : f[key] \in DictValues(key)}
                     : D \in DictDomains}}

Descs ==
    {Desc("str", <<n>>, NoDict) : n \in Names} \cup TupleDescs \cup DictDescs
    \cup {Desc("int", <<>>, NoDict)}

DescLists == UNION {[1..n -> Descs] : n \in 0..MaxDescs}

fl_Idle ==
    /\ fl_pc = "idle"
    /\ fl_in = <<>>
    /\ fl_out = fieldlist(<<>>)

fl_Init ==
    /\ fl_pc = "start"
    /\ fl_in \in DescLists
    /\ fl_out = fieldlist(<<>>)

Fieldlist ==
    /\ fl_pc = "start"
    /\ fl_out' = fieldlist(fl_in)
    /\ fl_pc' = IF fl_out'.ok THEN "returned" ELSE "raised"
    /\ UNCHANGED fl_in
    /\ UNCHANGED <<p_vars, rf_vars, ds_vars, cd_vars, tg_vars>>

fl_Next == Fieldlist

\* what a description says: its name, and the types it gives explicitly
DescName(obj) ==
    CASE obj.shape = "str" -> obj.elems[1]
      [] obj.shape = "tuple" -> obj.elems[1]
      [] OTHER -> obj.d["name"]

GivesStorage(obj) ==
    \/ obj.shape = "tuple" /\ Len(obj.elems) > 1
    \/ obj.shape = "dict" /\ "storage_type" \in DOMAIN obj.d

GivenStorage(obj) ==
    IF obj.shape = "tuple" THEN obj.elems[2] ELSE obj.d["storage_type"]

GivesAnalytical(obj) ==
    \/ obj.shape = "tuple" /\ Len(obj.elems) > 2
    \/ obj.shape = "dict" /\ "analytical_type" \in DOMAIN obj.d

\* C6: a Field built from a description that gives no analytical type has
\* the default-table analytical type of its storage type, and its storage
\* type is unknown when the description gives none.
C6_DefaultAnalyticalType ==
    fl_pc = "returned" =>
        \A i \in 1..Len(fl_in) :
            /\ fl_out.fields[i].storage_type =
                   (IF GivesStorage(fl_in[i]) THEN GivenStorage(fl_in[i])
                    ELSE "unknown")
            /\ ~GivesAnalytical(fl_in[i]) =>
                   fl_out.fields[i].analytical_type =
                       default_analytical_type[fl_out.fields[i].storage_type]

\* C7: the list fieldlist returns is as long as its input and its i-th
\* Field has the name of the i-th description.
C7_OrderAndCount ==
    fl_pc = "returned" =>
        /\ Len(fl_out.fields) = Len(fl_in)
        /\ \A i \in 1..Len(fl_in) : fl_out.fields[i].name = DescName(fl_in[i])

\* two descriptions of different shapes with the same name were both kept,
\* after a description with another name
C7_Witness ==
    /\ fl_pc = "returned"
    /\ Len(fl_in) = 2
    /\ fl_in[1].shape # fl_in[2].shape
    /\ fl_out.fields[1].name = fl_out.fields[2].name

\* the description is of none of the types fieldlist knows
UnknownShape(obj) == obj.shape \notin {"str", "tuple", "dict"}

\* a description of a known type from which a Field can be built
WellFormed(obj) ==
    \/ obj.shape = "str"
    \/ obj.shape = "tuple" /\ Len(obj.elems) > 0
    \/ obj.shape = "dict" /\ "name" \in DOMAIN obj.d
                          /\ "adapter_storage_type" \notin DOMAIN obj.d

\* C13 as stated: on any description that is no name, tuple or mapping,
\* fieldlist raises an error that names the offending entry and its
\* position in the input, and returns no list.
C13_NamesEntryAndPosition ==
    \A i \in 1..Len(fl_in) :
        (fl_pc # "start" /\ UnknownShape(fl_in[i])) =>
            /\ fl_pc = "raised"
            /\ fl_out.fields = <<>>
            /\ fl_out.exc.exc = "ValueError"
            /\ fl_out.exc.obj = fl_in[i]
            /\ "position" \in DOMAIN fl_out.exc
            /\ fl_out.exc["position"] = i

\* C13: an input holding a description that is no str, tuple or dict makes
\* fieldlist raise and return no list; when every description before the
\* first such one is well formed, the error is a ValueError whose message
\* gives the type of that description and the description itself, and no
\* position.
C13_UnknownShapeRaises ==
    \A i \in 1..Len(fl_in) :
        (fl_pc # "start" /\ UnknownShape(fl_in[i])) =>
            /\ fl_pc = "raised"
            /\ fl_out.fields = <<>>
            /\ (\A j \in 1..(i - 1) : WellFormed(fl_in[j])) =>
                    /\ fl_out.exc.exc = "ValueError"
                    /\ fl_out.exc.type = fl_in[i].shape
                    /\ fl_out.exc.obj = fl_in[i]
                    /\ DOMAIN fl_out.exc = {"exc", "type", "obj"}

\* fieldlist raised on a description of unknown type that follows a tuple
C13_Witness ==
    /\ fl_pc = "raised"
    /\ Len(fl_in) = 2
    /\ fl_in[1].shape = "tuple"
    /\ UnknownShape(fl_in[2])
    /\ fl_out.exc.exc = "ValueError"
    /\ fl_out.exc.obj = fl_in[2]

----------------------------------------------------------------------------
(* Type probe (brewery.dq.FieldTypeProbe)                                  *)

\* the kind a probed value is classified into; the text-like kind bears
\* the name read_fields compares with
kind_of(node) ==
    IF ~node.leaf THEN "other"
    ELSE CASE node.val.cls = "NoneType" -> "null"
           [] node.val.cls = "bool" -> "boolean"
           [] node.val.cls = "int" -> "integer"
           [] node.val.cls = "float" -> "float"
           [] node.val.cls \in {"unicode", "str"} -> "unicode"
           [] OTHER -> "other"

\* FieldTypeProbe.probe: add the value's kind to the observed kinds
probe(kinds, node) == kinds \cup {kind_of(node)}

\* FieldTypeProbe.unique_storage_type: the one non-null kind observed, None
\* when there is none or more than one
unique_storage_type(kinds) ==
    LET seen == kinds \ {"null"}
    IN  IF Cardinality(seen) = 1 THEN CHOOSE kind \in seen : TRUE ELSE None

----------------------------------------------------------------------------
(* Schema inference: DataSource.read_fields                                *)

\* a scan that notes a key each time it is probed
note_key_always(keys, full_key, known) == Append(keys, full_key)

\* keys.append(full_key), for a key that has no probe yet
note_key(keys, full_key, known) ==
    IF known THEN keys ELSE Append(keys, full_key)

RECURSIVE probe_from(_, _, _, _, _)
\* probe_record(record, parent), from its i-th item on; st holds keys,
\* probes and the values probed so far
probe_from(record, parent, expand, i, st) ==
    IF i > Len(record) THEN st
    ELSE LET key == record[i].k
             value == record[i].v
             full_key == IF parent # <<>> THEN parent \o <<".">> \o key ELSE key
             known == full_key \in DOMAIN st.probes
             st1 == IF expand /\ ~value.leaf
                    THEN probe_from(value.items, full_key, expand, 1, st)
                    ELSE [keys |-> note_key(st.keys, full_key, known),
                          probes |-> IF known
                                     THEN [st.probes EXCEPT
                                              ![full_key] = probe(@, value)]
                                     ELSE (full_key :> probe({}, value)) @@ st.probes,
                          probed |-> Append(st.probed, <<full_key, value>>)]
         IN  probe_from(record, parent, expand, i + 1, st1)

probe_record(record, expand, st) == probe_from(record, <<>>, expand, 1, st)

\* a resolution that takes a field without a unique kind for a string
resolve_default_string(storage_type) ==
    IF storage_type = None
    THEN [storage_type |-> "string", concrete_storage_type |-> None]
    ELSE IF storage_type = "unicode"
    THEN [storage_type |-> "string", concrete_storage_type |-> None]
    ELSE [storage_type |-> "unknown", concrete_storage_type |-> storage_type]

\* the storage type and concrete storage type read_fields sets on a Field,
\* from its probe's unique_storage_type
resolve(storage_type) ==
    IF storage_type = None
    THEN [storage_type |-> "unknown", concrete_storage_type |-> None]
    ELSE IF storage_type = "unicode"
    THEN [storage_type |-> "string", concrete_storage_type |-> None]
    ELSE [storage_type |-> "unknown", concrete_storage_type |-> storage_type]

\* the Field read_fields emits for a key; the analytical type stays as
\* Field.__init__ leaves it
emit_field(key, kinds) ==
    LET r == resolve(unique_storage_type(kinds))
    IN  Field(key, None, r.storage_type, None, r.concrete_storage_type)

rf_Idle ==
    /\ rf_pc = "idle"
    /\ rf_stream = <<>>
    /\ rf_limit = 0
    /\ rf_collapse = FALSE
    /\ rf_expand = FALSE
    /\ rf_taken = 0
    /\ rf_count = 0
    /\ rf_keys = <<>>
    /\ rf_probes = NoDict
    /\ rf_probed = <<>>
    /\ rf_fields = <<>>

\* the keys and values of the generated records
K_a == <<"a">>
K_b == <<"b">>
K_c == <<"c">>
K_d == <<"d">>
K_ab == <<"a", ".", "b">>
K_ac == <<"a", ".", "c">>

IntValue(id) == Leaf(Value("int", id))
TextValue(id) == Leaf(Value("unicode", id))
NullValue == Leaf(Value("NoneType", 0))

\* the two records of the worked example: [{a.b: 1, a.c: 2}, {a.b: 3, d: 4}]
ExampleStream ==
    << <<Item(K_ab, IntValue(1)), Item(K_ac, IntValue(2))>>,
       <<Item(K_ab, IntValue(3)), Item(K_d, IntValue(4))>> >>

SourceRecords ==
    { ExampleStream[1], ExampleStream[2],
      <<>>,
      <<Item(K_d, NullValue), Item(K_ac, TextValue(5))>>,
      <<Item(K_a, DictNode(<<Item(K_c, Leaf(Value("float", 6))),
                            Item(K_b, NullValue)>>)),
        Item(K_d, Leaf(Value("bool", 7)))>>,
      <<Item(K_ab, TextValue(8)), Item(K_a, DictNode(<<Item(K_b, TextValue(9))>>))>>,
      <<Item(K_d, NullValue)>> }

rf_Init ==
    /\ rf_pc = "scan"
    /\ rf_stream \in UNION {[1..n -> SourceRecords] : n \in 0..MaxRecords}
    /\ rf_limit \in 0..MaxLimit
    /\ rf_collapse \in BOOLEAN
    /\ rf_expand \in BOOLEAN
    /\ rf_taken = 0
    /\ rf_count = 0
    /\ rf_keys = <<>>
    /\ rf_probes = NoDict
    /\ rf_probed = <<>>
    /\ rf_fields = <<>>

\* one pass of the loop over self.records(): take the next record,
\* collapse it when asked, probe it, then leave the loop when the limit is
\* set and count has reached it, else count the record
Scan ==
    /\ rf_pc = "scan"
    /\ rf_taken < Len(rf_stream)
    /\ LET record == IF rf_collapse
                     THEN collapse_record(rf_stream[rf_taken + 1], <<".">>, <<>>)
                     ELSE rf_stream[rf_taken + 1]
           st == probe_record(record, rf_expand,
                     [keys |-> rf_keys, probes |-> rf_probes, probed |-> rf_probed])
       IN  /\ rf_keys' = st.keys
           /\ rf_probes' = st.probes
           /\ rf_probed' = st.probed
    /\ rf_taken' = rf_taken + 1
    /\ IF rf_limit # 0 /\ rf_count >= rf_limit
       THEN rf_pc' = "break" /\ rf_count' = rf_count
       ELSE rf_pc' = "scan" /\ rf_count' = rf_count + 1
    /\ UNCHANGED <<rf_stream, rf_limit, rf_collapse, rf_expand, rf_fields>>
    /\ UNCHANGED <<p_vars, fl_vars, ds_vars, cd_vars, tg_vars>>

\* after the loop: one Field per key, in the order of keys
Emit ==
    /\ \/ rf_pc = "break"
       \/ rf_pc = "scan" /\ rf_taken = Len(rf_stream)
    /\ rf_fields' = [i \in 1..Len(rf_keys) |->
                        emit_field(rf_keys[i], rf_probes[rf_keys[i]])]
    /\ rf_pc' = "done"
    /\ UNCHANGED <<rf_stream, rf_limit, rf_collapse, rf_expand,
                   rf_taken, rf_count, rf_keys, rf_probes, rf_probed>>
    /\ UNCHANGED <<p_vars, fl_vars, ds_vars, cd_vars, tg_vars>>

rf_Next == Scan \/ Emit

\* the kinds of the values that were given to the probe of a key
ObservedKinds(key) ==
    {kind_of(rf_probed[n][2]) : n \in {m \in 1..Len(rf_probed) : rf_probed[m][1] = key}}

NonNullKinds(key) == ObservedKinds(key) \ {"null"}

\* the storage type a single observed kind maps to
DirectStorageType(kind) == IF kind = "unicode" THEN "string" ELSE kind

\* the default table, made total: a storage type it does not list is typeless
DefaultAnalyticalType(storage_type) ==
    IF storage_type \in DOMAIN default_analytical_type
    THEN default_analytical_type[storage_type] ELSE "typeless"

\* C2: a field for which exactly one non-null kind was observed (integer,
\* float, boolean or text-like) is emitted with the storage type of that
\* kind and with the default analytical type of that storage type.
C2_UnanimousKindResolves ==
    rf_pc = "done" =>
        \A i \in 1..Len(rf_fields) :
            LET kinds == NonNullKinds(rf_fields[i].name)
            IN  (Cardinality(kinds) = 1 /\ kinds \subseteq
                     {"integer", "float", "boolean", "unicode"}) =>
                    /\ rf_fields[i].storage_type =
                           DirectStorageType(CHOOSE kind \in kinds : TRUE)
                    /\ rf_fields[i].analytical_type =
                           DefaultAnalyticalType(rf_fields[i].storage_type)

\* C3: a field for which more than one non-null kind was observed, or only
\* null, is emitted with storage type unknown.
C3_NoNarrowGuess ==
    rf_pc = "done" =>
        \A i \in 1..Len(rf_fields) :
            LET key == rf_fields[i].name
            IN  (Cardinality(NonNullKinds(key)) > 1 \/ ObservedKinds(key) = {"null"})
                    => rf_fields[i].storage_type = "unknown"

\* one field was probed with values of two kinds, another with null alone
C3_Witness ==
    /\ rf_pc = "done"
    /\ \E i \in 1..Len(rf_fields) :
           NonNullKinds(rf_fields[i].name) = {"integer", "unicode"}
    /\ \E i \in 1..Len(rf_fields) : ObservedKinds(rf_fields[i].name) = {"null"}

\* the place of the first probe of a key among all the values probed
FirstProbe(key) == Min({n \in 1..Len(rf_probed) : rf_probed[n][1] = key})

InFirstSeenOrder(names) ==
    /\ {names[i] : i \in 1..Len(names)} = {rf_probed[n][1] : n \in 1..Len(rf_probed)}
    /\ \A i, j \in 1..Len(names) : i < j => FirstProbe(names[i]) < FirstProbe(names[j])

\* C4: keys holds, at every point of the scan, each leaf key probed so far
\* exactly once, in the order of the keys' first probe; read_fields returns
\* one Field per key in that order; the example stream, collapsed, gives
\* the fields a.b, a.c, d.
C4_FirstSeenOrder ==
    /\ InFirstSeenOrder(rf_keys)
    /\ rf_pc = "done" =>
           /\ Len(rf_fields) = Len(rf_keys)
           /\ \A i \in 1..Len(rf_fields) : rf_fields[i].name = rf_keys[i]
           /\ (rf_stream = ExampleStream /\ rf_collapse) =>
                  [i \in 1..Len(rf_fields) |-> rf_fields[i].name] = <<K_ab, K_ac, K_d>>

\* a key came back in a later record after another key had been found
C4_Witness ==
    /\ rf_pc = "done"
    /\ Len(rf_fields) >= 3
    /\ \E n, m \in 1..Len(rf_probed) :
           /\ n < m
           /\ rf_probed[n][1] = rf_fields[1].name
           /\ rf_probed[m][1] = rf_fields[1].name
           /\ \E q \in (n + 1)..(m - 1) : rf_probed[q][1] = rf_fields[2].name

\* C5: with a limit N > 0 read_fields probes min(N, length of the stream)
\* records, and with N = 0 every record.
C5_SampleLimit ==
    rf_pc = "done" =>
        rf_taken = (IF rf_limit > 0 /\ rf_limit < Len(rf_stream)
                    THEN rf_limit ELSE Len(rf_stream))

----------------------------------------------------------------------------
(* Backend type bridge: sqlalchemy types to and from brewery types         *)

\* the sqlalchemy.types classes the model knows, each with its base class
\* among them (TypeEngine for a class derived from none of them)
TypeEngine == "TypeEngine"

BaseClass ==
    [cls \in {"UnicodeText", "Text", "Unicode", "String", "Integer",
              "SmallInteger", "Numeric", "Float", "DateTime", "Date", "Time",
              "Interval", "Boolean", "Binary", "LargeBinary", "NullType",
              "PickleType"} |->
        CASE cls = "UnicodeText" -> "Text"
          [] cls = "Text" -> "String"
          [] cls = "Unicode" -> "String"
          [] cls = "SmallInteger" -> "Integer"
          [] cls = "Float" -> "Numeric"
          [] cls = "Binary" -> "LargeBinary"
          [] OTHER -> TypeEngine]

NativeTypes == DOMAIN BaseClass

RECURSIVE issubclass(_, _)
issubclass(cls, base) ==
    \/ cls = base
    \/ cls \in NativeTypes /\ issubclass(BaseClass[cls], base)

\* (sql type, storage type, analytical type)
sql_to_brewery_types ==
    << <<"UnicodeText", "text", "typeless">>,
       <<"Text", "text", "typeless">>,
       <<"Unicode", "string", "set">>,
       <<"String", "string", "set">>,
       <<"Integer", "integer", "discrete">>,
       <<"Numeric", "float", "range">>,
       <<"DateTime", "date", "typeless">>,
       <<"Date", "date", "typeless">>,
       <<"Time", "unknown", "typeless">>,
       <<"Interval", "unknown", "typeless">>,
       <<"Boolean", "boolean", "flag">>,
       <<"Binary", "unknown", "typeless">> >>

brewery_to_sql_type ==
    [st \in {"string", "text", "date", "time", "integer", "numeric", "boolean"} |->
        CASE st = "string" -> "Unicode"
          [] st = "text" -> "UnicodeText"
          [] st = "date" -> "Date"
          [] st = "time" -> "DateTime"
          [] st = "integer" -> "Integer"
          [] st = "numeric" -> "Numeric"
          [] OTHER -> "SmallInteger"]

Column(name, type) == [name |-> name, type |-> type]

RECURSIVE convert_all_from(_, _, _)
\* a loop over the table that goes on after a match
convert_all_from(field, type, i) ==
    IF i > Len(sql_to_brewery_types) THEN field
    ELSE LET conv == sql_to_brewery_types[i]
         IN  IF issubclass(type, conv[1])
             THEN convert_all_from(
                      [field EXCEPT !.storage_type = conv[2],
                                    !.analytical_type = conv[3]], type, i + 1)
             ELSE convert_all_from(field, type, i + 1)

RECURSIVE convert_from(_, _, _)
\* the loop of SQLDataset.fields over _sql_to_brewery_types, from its i-th
\* entry on: the first entry the column's type is a subclass of sets the
\* field's types and ends the loop
convert_from(field, type, i) ==
    IF i > Len(sql_to_brewery_types) THEN field
    ELSE LET conv == sql_to_brewery_types[i]
         IN  IF issubclass(type, conv[1])
             THEN [field EXCEPT !.storage_type = conv[2],
                                !.analytical_type = conv[3]]
             ELSE convert_from(field, type, i + 1)

\* the Field SQLDataset.fields makes for a column.  A falsy storage_type
\* would set the attribute storaget_tpye, and leave storage_type alone.
column_field(column) ==
    LET f0 == Field(column.name, None, "unknown", None, column.type)
        f1 == convert_from(f0, column.type, 1)
    IN  IF f1.analytical_type = None
        THEN [f1 EXCEPT !.analytical_type = "unknown"]
        ELSE f1

ColumnLists ==
    UNION {{cols \in [1..n -> [name : {"c1", "c2", "c3"}, type : NativeTypes]] :
              \A i, j \in 1..n : i # j => cols[i].name # cols[j].name}
           : n \in 0..MaxColumns}

ds_Idle ==
    /\ ds_columns = <<>>
    /\ ds_fields = <<>>
    /\ ds_returned = <<>>

\* SQLDataset.__init__ on a table
ds_Init ==
    /\ ds_columns \in ColumnLists
    /\ ds_fields = <<>>
    /\ ds_returned = <<>>

\* the fields property: _fields when it is set and not empty, else one
\* Field per column, kept in _fields
Fields ==
    /\ LET fields == IF ds_fields # <<>> THEN ds_fields
                     ELSE [i \in 1..Len(ds_columns) |-> column_field(ds_columns[i])]
       IN  /\ ds_fields' = fields
           /\ ds_returned' = fields
    /\ UNCHANGED ds_columns
    /\ UNCHANGED <<p_vars, fl_vars, rf_vars, cd_vars, tg_vars>>

ds_Next == Fields

\* the entries of the table that match a native type
Matching(type) ==
    {i \in 1..Len(sql_to_brewery_types) : issubclass(type, sql_to_brewery_types[i][1])}

\* the fields property has returned the fields of the table's columns
Introspected == Len(ds_columns) > 0 /\ Len(ds_returned) = Len(ds_columns)

\* C8: the Field of a column whose type matches no entry of the table has
\* storage type unknown and analytical type typeless.
C8_UnmatchedIsUnknownTypeless ==
    Introspected =>
        \A i \in 1..Len(ds_columns) :
            Matching(ds_columns[i].type) = {} =>
                /\ ds_returned[i].storage_type = "unknown"
                /\ ds_returned[i].analytical_type = "typeless"

\* C9: the Field of a column whose type matches entries of the table has
\* the storage and analytical type of the earliest of them.
C9_FirstMatchWins ==
    Introspected =>
        \A i \in 1..Len(ds_columns) :
            LET hits == Matching(ds_columns[i].type)
            IN  hits # {} =>
                    /\ ds_returned[i].storage_type = sql_to_brewery_types[Min(hits)][2]
                    /\ ds_returned[i].analytical_type = sql_to_brewery_types[Min(hits)][3]

\* a column whose type matches several entries that disagree was read
C9_Witness ==
    /\ Introspected
    /\ \E i \in 1..Len(ds_columns) :
           \E m, n \in Matching(ds_columns[i].type) :
               sql_to_brewery_types[m][2] # sql_to_brewery_types[n][2]

----------------------------------------------------------------------------
(* SQLDataStore.create_dataset                                             *)

NoTables == [name \in {} |-> <<>>]

\* what create_dataset raises: ValueError, with the names its message holds
StoreError(what, name, storage_type) ==
    [exc |-> "ValueError", what |-> what, name |-> name,
     storage_type |-> storage_type]

NoError == [exc |-> None, what |-> None, name |-> None, storage_type |-> None]

\* an element of the fields argument that is not a Field
NotAField == [name |-> None, label |-> None, storage_type |-> None,
              analytical_type |-> None, concrete_storage_type |-> "not a Field",
              missing_values |-> None]

\* table.append_column(col): a column of the same name is replaced
append_column(columns, col) ==
    IF \E i \in 1..Len(columns) : columns[i].name = col.name
    THEN [i \in 1..Len(columns) |->
             IF columns[i].name = col.name THEN col ELSE columns[i]]
    ELSE Append(columns, col)

\* self._table(name, autoload = False): the Table of that name in
\* self.metadata, made without columns when there is none
table_of(meta, name) ==
    IF name \in DOMAIN meta THEN meta ELSE (name :> <<>>) @@ meta

\* a lookup that falls back on a string column
to_sql_type_or_string(storage_type) ==
    IF storage_type \in DOMAIN brewery_to_sql_type
    THEN brewery_to_sql_type[storage_type] ELSE "Unicode"

\* _brewery_to_sql_type.get(field.storage_type)
to_sql_type(storage_type) ==
    IF storage_type \in DOMAIN brewery_to_sql_type
    THEN brewery_to_sql_type[storage_type] ELSE None

cd_Idle ==
    /\ db_tables = NoTables
    /\ metadata = NoTables
    /\ cd_pc = "idle"
    /\ cd_name = None
    /\ cd_fields = <<>>
    /\ cd_replace = FALSE
    /\ cd_i = 0
    /\ cd_exc = NoError
    /\ cd_before = NoTables

\* the names create_dataset is called with
TableNames == {"t1"}

\* SQLDataStore.__init__: metadata.reflect() loads the tables of the
\* database
cd_Init ==
    /\ db_tables \in {NoTables,
                       "t1" :> <<Column("c1", "Integer")>>,
                       "t2" :> <<Column("c1", "Integer")>>,
                       ("t1" :> <<Column("c2", "LargeBinary")>>)
                           @@ ("t2" :> <<Column("c1", "Integer")>>)}
    /\ metadata = db_tables
    /\ cd_pc = "idle"
    /\ cd_name = None
    /\ cd_fields = <<>>
    /\ cd_replace = FALSE
    /\ cd_i = 0
    /\ cd_exc = NoError
    /\ cd_before = NoTables

StoreFields ==
    {NotAField} \cup
    {Field(name, None, t[1], None, t[2]) :
        name \in {"c1", "c2"},
        t \in {<<"string", None>>, <<"float", None>>, <<"unknown", "Date">>}}

StoreFieldLists == UNION {[1..n -> StoreFields] : n \in 1..MaxFields}

Without(tables, name) == [n \in DOMAIN tables \ {name} |-> tables[n]]

\* create_dataset up to its loop: an existing table raises, or with
\* replace is dropped; then the Table is taken from the metadata
CreateDataset(name, fields, replace) ==
    /\ cd_pc = "idle"
    /\ cd_name' = name
    /\ cd_fields' = fields
    /\ cd_replace' = replace
    /\ cd_before' = db_tables
    /\ cd_i' = 1
    /\ IF name \in DOMAIN db_tables /\ ~replace
       THEN /\ cd_pc' = "raised"
            /\ cd_exc' = StoreError("already exists", name, None)
            /\ UNCHANGED <<db_tables, metadata>>
       ELSE /\ cd_pc' = "columns"
            /\ cd_exc' = NoError
            /\ db_tables' = Without(db_tables, name)
            /\ metadata' = table_of(metadata, name)
    /\ UNCHANGED <<p_vars, fl_vars, rf_vars, ds_vars, tg_vars>>

\* one pass of the loop over fields
AppendColumn ==
    /\ cd_pc = "columns"
    /\ cd_i <= Len(cd_fields)
    /\ LET field == cd_fields[cd_i]
           concrete_type ==
               IF field.concrete_storage_type \in NativeTypes
               THEN field.concrete_storage_type
               ELSE to_sql_type(field.storage_type)
       IN  IF field = NotAField
           THEN /\ cd_pc' = "raised"
                /\ cd_exc' = StoreError("not a Field", None, None)
                /\ UNCHANGED <<metadata, cd_i>>
           ELSE IF concrete_type = None
           THEN /\ cd_pc' = "raised"
                /\ cd_exc' = StoreError("unable to create column",
                                        field.name, field.storage_type)
                /\ UNCHANGED <<metadata, cd_i>>
           ELSE /\ metadata' = [metadata EXCEPT ![cd_name] =
                                   append_column(@, Column(field.name, concrete_type))]
                /\ cd_i' = cd_i + 1
                /\ UNCHANGED <<cd_pc, cd_exc>>
    /\ UNCHANGED <<db_tables, cd_name, cd_fields, cd_replace, cd_before>>
    /\ UNCHANGED <<p_vars, fl_vars, rf_vars, ds_vars, tg_vars>>

\* after the loop: table.create() and the return of the dataset
TableCreate ==
    /\ cd_pc = "columns"
    /\ cd_i > Len(cd_fields)
    /\ db_tables' = (cd_name :> metadata[cd_name]) @@ db_tables
    /\ cd_pc' = "returned"
    /\ UNCHANGED <<metadata, cd_name, cd_fields, cd_replace, cd_i, cd_exc, cd_before>>
    /\ UNCHANGED <<p_vars, fl_vars, rf_vars, ds_vars, tg_vars>>

\* the caller goes on after the return or the exception
Continue ==
    /\ cd_pc \in {"returned", "raised"}
    /\ cd_pc' = "idle"
    /\ cd_name' = None
    /\ cd_fields' = <<>>
    /\ cd_replace' = FALSE
    /\ cd_i' = 0
    /\ cd_exc' = NoError
    /\ cd_before' = NoTables
    /\ UNCHANGED <<db_tables, metadata>>
    /\ UNCHANGED <<p_vars, fl_vars, rf_vars, ds_vars, tg_vars>>

cd_Next ==
    \/ \E name \in TableNames, fields \in StoreFieldLists, replace \in BOOLEAN :
           CreateDataset(name, fields, replace)
    \/ AppendColumn
    \/ TableCreate
    \/ Continue

\* a field that has no sqlalchemy type of its own and whose storage type
\* has no entry in _brewery_to_sql_type
Unsupported(field) ==
    /\ field # NotAField
    /\ field.concrete_storage_type \notin NativeTypes
    /\ field.storage_type \notin DOMAIN brewery_to_sql_type

\* C10: create_dataset's loop never gets past a field without a native
\* type: at such a field the call raises an error that names the field's
\* storage type, the table is not created, and a call that returns has
\* given every column a sqlalchemy type.
C10_UnsupportedTypeRaises ==
    /\ cd_pc \in {"columns", "returned"} =>
           \A j \in 1..(cd_i - 1) : ~Unsupported(cd_fields[j])
    /\ (cd_pc = "raised" /\ cd_exc.what # "already exists"
            /\ Unsupported(cd_fields[cd_i])) =>
           /\ cd_exc.exc = "ValueError"
           /\ cd_exc.what = "unable to create column"
           /\ cd_exc.storage_type = cd_fields[cd_i].storage_type
           /\ cd_name \notin DOMAIN db_tables
    /\ cd_pc = "returned" =>
           /\ cd_i = Len(cd_fields) + 1
           /\ \A n \in 1..Len(db_tables[cd_name]) :
                  db_tables[cd_name][n].type \in NativeTypes

\* the loop met a float field after it had made a column, in a call that
\* replaces a table
C10_Witness ==
    /\ cd_pc = "raised"
    /\ cd_i = 2
    /\ Unsupported(cd_fields[2])
    /\ cd_fields[2].storage_type = "float"
    /\ cd_exc.storage_type = "float"
    /\ cd_replace
    /\ cd_name \in DOMAIN cd_before

\* the fields are Fields with a native type and with names of their own
Supported(fields) ==
    /\ \A i \in 1..Len(fields) :
           fields[i] # NotAField /\ ~Unsupported(fields[i])
    /\ \A i, j \in 1..Len(fields) :
           i # j => fields[i].name # fields[j].name

\* one column for each field, in field order
FieldColumns(fields) ==
    [i \in 1..Len(fields) |->
        Column(fields[i].name,
               IF fields[i].concrete_storage_type \in NativeTypes
               THEN fields[i].concrete_storage_type
               ELSE brewery_to_sql_type[fields[i].storage_type])]

\* C14: create_dataset under an existing name raises 'already exists' and
\* leaves the tables alone when replace is false; with replace and
\* supported fields the table it returns has exactly the columns of the
\* given fields, in field order.
C14_ReplaceOrRefuse ==
    (cd_pc # "idle" /\ cd_name \in DOMAIN cd_before) =>
        /\ ~cd_replace =>
               /\ cd_pc = "raised"
               /\ cd_exc.what = "already exists"
               /\ db_tables = cd_before
        /\ (cd_replace /\ Supported(cd_fields) /\ cd_pc = "returned") =>
               /\ cd_name \in DOMAIN db_tables
               /\ db_tables[cd_name] = FieldColumns(cd_fields)

\* C15: a create_dataset call with replace on an existing name that
\* raises in its loop over the fields leaves the table that was there
\* before the call in the database.
C15_FailedCreateKeepsTable ==
    (cd_pc = "raised" /\ cd_replace /\ cd_name \in DOMAIN cd_before
        /\ cd_exc.what \in {"not a Field", "unable to create column"}) =>
        /\ cd_name \in DOMAIN db_tables
        /\ db_tables[cd_name] = cd_before[cd_name]

----------------------------------------------------------------------------
(* SQLDataTarget.append                                                    *)

\* the object given to append: a dict (d) or a sequence of values (row)
Appended(isdict, d, row) == [isdict |-> isdict, d |-> d, row |-> row]

NoRecord == [key \in {} |-> 0]

\* dict(zip(self.field_names, obj)): pairs up to the shorter of the two
zip_record(field_names, row) ==
    LET n == IF Len(row) < Len(field_names) THEN Len(row) ELSE Len(field_names)
    IN  [key \in {field_names[i] : i \in 1..n} |->
            row[CHOOSE i \in 1..n : field_names[i] = key]]

\* the record append hands to the insert command
append_record(field_names, obj) ==
    IF obj.isdict THEN obj.d ELSE zip_record(field_names, obj.row)

\* the row an insert of the record stores: the record's value for each
\* column, NULL (0) for a column it does not give
inserted_row(field_names, record) ==
    [col \in {field_names[i] : i \in 1..Len(field_names)} |->
        IF col \in DOMAIN record THEN record[col] ELSE 0]

tg_Idle ==
    /\ tg_field_names = <<>>
    /\ tg_rows = <<>>
    /\ tg_pc = "idle"
    /\ tg_obj = Appended(FALSE, NoRecord, <<>>)
    /\ tg_exc = None
    /\ tg_before = <<>>

\* SQLDataTarget.initialize: the field names are the table's column names
tg_Init ==
    /\ tg_field_names \in {<<"c1">>, <<"c1", "c2">>}
    /\ tg_rows = <<>>
    /\ tg_pc = "ready"
    /\ tg_obj = Appended(FALSE, NoRecord, <<>>)
    /\ tg_exc = None
    /\ tg_before = <<>>

AppendedRows ==
    {Appended(FALSE, NoRecord, row) :
        row \in UNION {[1..n -> {1, 2}] : n \in 0..MaxRowLen}}

AppendedDicts ==
    {Appended(TRUE, d, <<>>) :
        d \in UNION {[D -> {1, 2}] : D \in SUBSET {"c1", "c2", "c3"}}}

\* append(obj).  The insert command is sqlalchemy's: given a key that is
\* no column of the table it raises, or leaves the key out, depending on
\* the library; append itself checks nothing.
append(obj) ==
    /\ tg_pc \in {"ready", "appended", "raised"}
    /\ Len(tg_rows) < MaxAppends
    /\ tg_obj' = obj
    /\ tg_before' = tg_rows
    /\ LET record == append_record(tg_field_names, obj)
           columns == {tg_field_names[i] : i \in 1..Len(tg_field_names)}
       IN  \/ /\ tg_rows' = Append(tg_rows, inserted_row(tg_field_names, record))
              /\ tg_pc' = "appended"
              /\ tg_exc' = None
           \/ /\ ~(DOMAIN record \subseteq columns)
              /\ tg_rows' = tg_rows
              /\ tg_pc' = "raised"
              /\ tg_exc' = "CompileError"
    /\ UNCHANGED tg_field_names
    /\ UNCHANGED <<p_vars, fl_vars, rf_vars, ds_vars, cd_vars>>

tg_Next == \E obj \in AppendedRows \cup AppendedDicts : append(obj)

\* the appended object does not fit the field list
Mismatch(field_names, obj) ==
    IF obj.isdict
    THEN ~(DOMAIN obj.d \subseteq {field_names[i] : i \in 1..Len(field_names)})
    ELSE Len(obj.row) > Len(field_names)

\* C11: an append of a record with a key that is no field, or of a row
\* with more values than fields, raises and leaves the table as it was.
C11_AppendRejectsMismatch ==
    (tg_pc \in {"appended", "raised"} /\ Mismatch(tg_field_names, tg_obj)) =>
        /\ tg_pc = "raised"
        /\ tg_rows = tg_before

----------------------------------------------------------------------------
(* Specifications                                                          *)

InitPath == p_Init /\ fl_Idle /\ rf_Idle /\ ds_Idle /\ cd_Idle /\ tg_Idle

SpecPath == InitPath /\ [][p_Next]_vars

InitFieldlist == fl_Init /\ p_Idle /\ rf_Idle /\ ds_Idle /\ cd_Idle /\ tg_Idle

SpecFieldlist == InitFieldlist /\ [][fl_Next]_vars

InitInfer == rf_Init /\ p_Idle /\ fl_Idle /\ ds_Idle /\ cd_Idle /\ tg_Idle

SpecInfer == InitInfer /\ [][rf_Next]_vars

InitBridge == ds_Init /\ p_Idle /\ fl_Idle /\ rf_Idle /\ cd_Idle /\ tg_Idle

SpecBridge == InitBridge /\ [][ds_Next]_vars

InitStore == cd_Init /\ p_Idle /\ fl_Idle /\ rf_Idle /\ ds_Idle /\ tg_Idle

SpecStore == InitStore /\ [][cd_Next]_vars

InitTarget == tg_Init /\ p_Idle /\ fl_Idle /\ rf_Idle /\ ds_Idle /\ cd_Idle

SpecTarget == InitTarget /\ [][tg_Next]_vars

====
